---- MODULE Spec2Model ----
(***************************************************************************)
(* Cross-layer equalization (CLE) and high-bias absorption (HBA) of        *)
(* tinynn/graph/quantization/cross_layer_equalization.py.                  *)
(*                                                                         *)
(* Five specifications share the variables below:                          *)
(*   SpecTraverse  get_cls_set / graph_traverse over hand-built graphs     *)
(*   SpecEq        equalize on two convolutions                            *)
(*   SpecCdc       equalize_cdc on conv -> depthwise -> conv               *)
(*   SpecHba       get_cls_set followed by high_bias_absorb                *)
(*   SpecPair      one call of bias_absorb_helper_                         *)
(*   SpecDriver    cross_layer_equalize                                    *)
(***************************************************************************)
EXTENDS Integers, Sequences, FiniteSets, TLC

VARIABLES
    pc,             \* position of the running function
    graph,          \* cur_graph: node id -> [module, next_nodes]
    stack,          \* call stack of graph_traverse frames
    heap,           \* the Python list objects current_group may refer to
    layer_groups,   \* layer_groups: sequence of references into heap
    visited_nodes,  \* visited_nodes: sequence of node ids
    fwd,            \* position of get_cls_set in cur_graph.forward_nodes
    tensors,        \* the parameter tensors equalize / equalize_cdc are given
    given,          \* the tensors and arguments as they were passed
    scales,         \* the scale factors the function returned
    model,          \* the working model: layer name -> module
    origin_model,   \* origin_model, the copy whose biases are rewritten
    hba_pos,        \* position of bias_absorb_ in layers_groups
    absorbed,       \* history: the pairs bias_absorb_helper_ absorbed
    outcome,        \* how the last call of bias_absorb_helper_ ended
    drv             \* locals of cross_layer_equalize and the model objects

vars == <<pc, graph, stack, heap, layer_groups, visited_nodes, fwd,
          tensors, given, scales,
          model, origin_model, hba_pos, absorbed, outcome, drv>>

travVars == <<graph, stack, heap, layer_groups, visited_nodes, fwd>>

eqVars == <<tensors, given, scales>>

hbaVars == <<model, origin_model, hba_pos, absorbed, outcome>>

(***************************************************************************)
(* Bounds                                                                  *)
(***************************************************************************)
NumNodes == 4

Nodes == 1..NumNodes

\* the reference held by a parameter that was passed as None
None == 0

(***************************************************************************)
(* Layer modules                                                           *)
(***************************************************************************)
cls_support_type == {"Conv2d", "Conv1d"}

cls_scalable_type == {"ReLU", "LeakyReLU", "PReLU", "Identity"}

\* a convolution module; bias tells whether it was built with a bias
\* tensor: the attribute exists either way (it is None when built without)
Conv(type, groups, in_channels, out_channels, bias) ==
    [type |-> type, groups |-> groups, in_channels |-> in_channels,
     out_channels |-> out_channels, bias |-> bias]

\* a module that is no convolution
Plain(type) == [type |-> type]

is_dw_conv(layer) ==
    /\ layer.type \in cls_support_type
    /\ layer.groups = layer.in_channels
    /\ layer.groups = layer.out_channels

is_normal_conv(layer) ==
    layer.type \in cls_support_type /\ layer.groups = 1

\* a group is a sequence of <<unique_name, module>> pairs
is_group_supported_any_head(current_group) ==
    LET current_group_ == [k \in 1..Len(current_group) |-> current_group[k][2]]
    IN  \/ /\ Len(current_group_) = 2
           /\ current_group_[1].type \in cls_support_type
           /\ is_normal_conv(current_group_[2])
        \/ /\ Len(current_group_) = 3
           /\ current_group_[1].type \in cls_support_type
           /\ is_dw_conv(current_group_[2])
           /\ is_normal_conv(current_group_[3])

is_group_supported(current_group) ==
    LET current_group_ == [k \in 1..Len(current_group) |-> current_group[k][2]]
    IN  IF /\ Len(current_group_) = 2
           /\ current_group_[1].type \in cls_support_type
           /\ is_normal_conv(current_group_[2])
        THEN TRUE
        ELSE IF /\ Len(current_group_) = 3
                /\ is_normal_conv(current_group_[1])
                /\ is_dw_conv(current_group_[2])
                /\ is_normal_conv(current_group_[3])
        THEN TRUE
        ELSE FALSE

(***************************************************************************)
(* graph_traverse                                                          *)
(***************************************************************************)
CarryOverTail(current_group) == Tail(current_group)

\* line 74: current_group = [current_group[-1]]
CarryOver(current_group) == <<current_group[Len(current_group)]>>

\* current_group not in layer_groups: list membership compares by value
NotInLayerGroups(h, lg, ref) ==
    \A k \in 1..Len(lg) : h[lg[k]] # h[ref]

\* lines 68-84 of graph_traverse for a node that was not visited yet.
\* ref0 is the reference the caller passed (None: a new list is made).
\* The result is the heap, layer_groups and the frame's current_group
\* when the loop over next_nodes starts.
TraverseBody(node, ref0, h0, lg0) ==
    LET module == graph[node].module
        next_nodes == graph[node].next_nodes
        \* lines 68-69
        h1 == IF ref0 = None THEN Append(h0, <<>>) ELSE h0
        ref1 == IF ref0 = None THEN Len(h1) ELSE ref0
        \* lines 72-74
        rec1 == is_group_supported(h1[ref1]) /\ NotInLayerGroups(h1, lg0, ref1)
        lg1 == IF rec1 THEN Append(lg0, ref1) ELSE lg0
        h2 == IF rec1 THEN Append(h1, CarryOver(h1[ref1])) ELSE h1
        ref2 == IF rec1 THEN Len(h2) ELSE ref1
        \* lines 78-79: append mutates the list object in place
        h3 == IF module.type \in cls_support_type
              THEN [h2 EXCEPT ![ref2] = Append(@, <<node, module>>)]
              ELSE h2
        \* lines 81-84
        brk == \/ Len(next_nodes) > 1
               \/ module.type \notin (cls_scalable_type \cup cls_support_type)
        rec2 == brk /\ is_group_supported(h3[ref2]) /\ NotInLayerGroups(h3, lg1, ref2)
        lg2 == IF rec2 THEN Append(lg1, ref2) ELSE lg1
        h4 == IF brk THEN Append(h3, <<>>) ELSE h3
        ref3 == IF brk THEN Len(h4) ELSE ref2
    IN  [heap |-> h4, layer_groups |-> lg2, current_group |-> ref3]

Top == stack[Len(stack)]

\* graph_traverse returned to the frames st: the caller, if it is a frame
\* of graph_traverse, runs line 88 (current_group = [], a new list) and
\* moves on to its next successor
ReturnTo(st, h) ==
    IF st = <<>>
    THEN /\ stack' = st
         /\ heap' = h
    ELSE /\ heap' = Append(h, <<>>)
         /\ stack' = [st EXCEPT ![Len(st)] =
                         [@ EXCEPT !.n = @ + 1, !.current_group = Len(h) + 1]]

\* A call graph_traverse(node, layer_groups, ref, visited_nodes) made by
\* the top frame of st (or by get_cls_set when st is empty): lines 64-84.
\* A visited node returns at once (line 67); otherwise a frame is pushed
\* that is about to run the loop of line 86.
CallTraverse(st, node, ref) ==
    IF \E k \in 1..Len(visited_nodes) : visited_nodes[k] = node
    THEN /\ ReturnTo(st, heap)
         /\ UNCHANGED <<layer_groups, visited_nodes>>
    ELSE LET r == TraverseBody(node, ref, heap, layer_groups)
         IN  /\ stack' = Append(st, [node |-> node,
                                     current_group |-> r.current_group,
                                     n |-> 1])
             /\ heap' = r.heap
             /\ layer_groups' = r.layer_groups
             /\ visited_nodes' = Append(visited_nodes, node)

\* lines 86-87: the loop calls graph_traverse on the next successor
TraverseCall ==
    /\ pc = "get_cls_set"
    /\ stack # <<>>
    /\ Top.n <= Len(graph[Top.node].next_nodes)
    /\ CallTraverse(stack, graph[Top.node].next_nodes[Top.n], Top.current_group)
    /\ UNCHANGED <<pc, graph, fwd, eqVars, hbaVars, drv>>

\* the loop of line 86 is exhausted: graph_traverse returns
TraverseReturn ==
    /\ pc = "get_cls_set"
    /\ stack # <<>>
    /\ Top.n > Len(graph[Top.node].next_nodes)
    /\ ReturnTo(SubSeq(stack, 1, Len(stack) - 1), heap)
    /\ UNCHANGED <<pc, graph, layer_groups, visited_nodes, fwd, eqVars, hbaVars, drv>>

(***************************************************************************)
(* get_cls_set                                                             *)
(***************************************************************************)
\* cur_graph.forward_nodes: the nodes in the order the tracer met them
forward_nodes == [k \in 1..Len(graph) |-> k]

\* lines 94-95: graph_traverse(node, layer_groups, visited_nodes=visited_nodes)
GetClsSetCall ==
    /\ pc = "get_cls_set"
    /\ stack = <<>>
    /\ fwd <= Len(forward_nodes)
    /\ CallTraverse(<<>>, forward_nodes[fwd], None)
    /\ fwd' = fwd + 1
    /\ UNCHANGED <<pc, graph, eqVars, hbaVars, drv>>

\* line 96
GetClsSetReturn ==
    /\ pc = "get_cls_set"
    /\ stack = <<>>
    /\ fwd > Len(forward_nodes)
    /\ pc' = "groups"
    /\ UNCHANGED <<travVars, eqVars, hbaVars, drv>>

\* the value get_cls_set returns
Groups == [k \in 1..Len(layer_groups) |-> heap[layer_groups[k]]]

NoTensors == tensors = <<>> /\ given = <<>> /\ scales = <<>>

NoGraph ==
    /\ graph = <<>>
    /\ stack = <<>>
    /\ heap = <<>>
    /\ layer_groups = <<>>
    /\ visited_nodes = <<>>
    /\ fwd = 0

NoModel ==
    /\ model = <<>>
    /\ origin_model = <<>>
    /\ hba_pos = <<>>
    /\ absorbed = <<>>
    /\ outcome = ""

NoDriver == drv = <<>>

(***************************************************************************)
(* Hand-built graphs                                                       *)
(***************************************************************************)
Modules ==
    { Conv("Conv2d", 1, 2, 2, TRUE),    \* normal convolution
      Conv("Conv2d", 2, 2, 2, TRUE),    \* depthwise convolution
      Plain("ReLU"),
      Plain("MaxPool2d") }

\* successors of node n, as offsets: the graphs are acyclic
NextOffsets == {<<>>, <<1>>, <<2>>, <<1, 2>>}

Graphs ==
    { [n \in Nodes |-> [module |-> m[n],
                        next_nodes |-> [k \in 1..Len(o[n]) |-> n + o[n][k]]]] :
        m \in [Nodes -> Modules],
        o \in { f \in [Nodes -> NextOffsets] :
                  \A n \in Nodes : \A k \in 1..Len(f[n]) : n + f[n][k] <= NumNodes } }

InitTraverse ==
    /\ pc = "get_cls_set"
    /\ graph \in Graphs
    /\ stack = <<>>
    /\ heap = <<>>
    /\ layer_groups = <<>>
    /\ visited_nodes = <<>>
    /\ fwd = 1
    /\ NoTensors
    /\ NoModel
    /\ NoDriver

NextTraverse ==
    \/ GetClsSetCall
    \/ TraverseCall
    \/ TraverseReturn
    \/ GetClsSetReturn

SpecTraverse == InitTraverse /\ [][NextTraverse]_vars

(***************************************************************************)
(* _weight_equal_helper: the branch taken for one group                    *)
(***************************************************************************)
weight_equal_branch(cls) ==
    LET layer_pair == [k \in 1..Len(cls) |-> cls[k][2]]
    IN  IF Len(layer_pair) = 3
        THEN IF /\ is_normal_conv(layer_pair[1])
                /\ is_dw_conv(layer_pair[2])
                /\ is_normal_conv(layer_pair[3])
             THEN "equalize_cdc"
             ELSE "AssertionError"
        ELSE IF Len(layer_pair) = 2
        THEN "equalize"
        ELSE "warning"

(***************************************************************************)
(* Properties of group discovery                                           *)
(***************************************************************************)
IsConv(n) == graph[n].module.type \in cls_support_type

IsAct(n) == graph[n].module.type \in cls_scalable_type

Succs(n) == {graph[n].next_nodes[k] : k \in 1..Len(graph[n].next_nodes)}

Preds(n) == {p \in Nodes : n \in Succs(p)}

\* a node after which graph_traverse restarts with an empty accumulator
Breaks(n) == Cardinality(Succs(n)) > 1 \/ (~IsConv(n) /\ ~IsAct(n))

\* the convolution that follows node n in a sequential run: reached through
\* single successors with a single predecessor, across activations only
RECURSIVE FollowConv(_)
FollowConv(n) ==
    IF Cardinality(Succs(n)) # 1 THEN 0
    ELSE LET m == CHOOSE x \in Succs(n) : TRUE
         IN  IF Preds(m) # {n} THEN 0
             ELSE IF IsConv(m) THEN m
             ELSE IF IsAct(m) THEN FollowConv(m)
             ELSE 0

\* convolution n is part of a run of normal convolutions that starts at a
\* root or right after nodes that break the chain
RECURSIVE InNormalRun(_)
InNormalRun(n) ==
    /\ IsConv(n)
    /\ is_normal_conv(graph[n].module)
    /\ \/ \A p \in Preds(n) : Breaks(p)
       \/ \E p \in Nodes : p < n /\ FollowConv(p) = n /\ InNormalRun(p)

Layer(n) == <<n, graph[n].module>>

\* the groups in which layers a and b are neighbours, a first
GroupsWithPair(a, b) ==
    {k \in 1..Len(Groups) :
        \E j \in 1..(Len(Groups[k]) - 1) :
            Groups[k][j] = Layer(a) /\ Groups[k][j + 1] = Layer(b)}

\* C1: discovery completeness.  For every run of sequential normal
\* convolutions separated only by scale-preserving activations, whatever
\* the number of successors of its last convolution, every adjacent pair
\* of the run lies in exactly one returned group (here the 2-group of the
\* pair, so a run of N convolutions yields N-1 overlapping 2-groups).
C1_DiscoveryComplete ==
    pc = "groups" =>
        \A a \in Nodes : \A b \in Nodes :
            (InNormalRun(a) /\ FollowConv(a) = b /\ is_normal_conv(graph[b].module))
                => /\ Cardinality(GroupsWithPair(a, b)) = 1
                   /\ \A k \in GroupsWithPair(a, b) : Groups[k] = <<Layer(a), Layer(b)>>

\* the layers two groups have in common
Common(g1, g2) ==
    {g1[j] : j \in 1..Len(g1)} \cap {g2[j] : j \in 1..Len(g2)}

\* C8: group overlap invariant.  In the returned list no group occurs
\* twice, two distinct groups share at most one layer, and a shared layer
\* is the last member of the earlier group and the first of the later one.
C8_GroupOverlap ==
    pc = "groups" =>
        \A i \in 1..Len(Groups) : \A j \in 1..Len(Groups) :
            i < j =>
                /\ Groups[i] # Groups[j]
                /\ Cardinality(Common(Groups[i], Groups[j])) <= 1
                /\ \A x \in Common(Groups[i], Groups[j]) :
                      /\ x = Groups[i][Len(Groups[i])]
                      /\ x = Groups[j][1]
                      /\ \A m \in 2..Len(Groups[j]) : Groups[j][m] # x
                      /\ \A m \in 1..(Len(Groups[i]) - 1) : Groups[i][m] # x

\* two returned groups share a layer
C8_Witness ==
    /\ pc = "groups"
    /\ \E i \in 1..Len(Groups) : \E j \in 1..Len(Groups) :
          i < j /\ Common(Groups[i], Groups[j]) # {}

\* C10: recorded groups are well-shaped.  Every returned group has 2 or 3
\* members and passes the supported-shape test, so _weight_equal_helper
\* neither fails its assertion nor takes the unsupported-arity branch.
C10_WellShaped ==
    pc = "groups" =>
        \A k \in 1..Len(Groups) :
            /\ Len(Groups[k]) \in {2, 3}
            /\ is_group_supported(Groups[k])
            /\ weight_equal_branch(Groups[k]) \in {"equalize", "equalize_cdc"}

\* a conv -> depthwise -> conv group was returned
C10_Witness ==
    /\ pc = "groups"
    /\ \E k \in 1..Len(Groups) : Len(Groups[k]) = 3

(***************************************************************************)
(* Exact arithmetic on tensors.  A number is a fraction <<n, d>> in lowest *)
(* terms with d > 0; a rank-4 tensor [out, in, kH, kW] is a sequence       *)
(* indexed [out][in][tap], the kernel's kH x kW taps in one sequence.      *)
(***************************************************************************)
Abs(n) == IF n < 0 THEN -n ELSE n

RECURSIVE GCD(_, _)
GCD(a, b) == IF b = 0 THEN a ELSE GCD(b, a % b)

Frac(n, d) ==
    LET g == GCD(Abs(n), Abs(d))
        sg == IF d < 0 THEN -1 ELSE 1
    IN  <<sg * (n \div g), sg * (d \div g)>>

Num(n) == <<n, 1>>

RAdd(a, b) == Frac(a[1] * b[2] + b[1] * a[2], a[2] * b[2])

RSub(a, b) == Frac(a[1] * b[2] - b[1] * a[2], a[2] * b[2])

RMul(a, b) == Frac(a[1] * b[1], a[2] * b[2])

RDiv(a, b) == Frac(a[1] * b[2], a[2] * b[1])

RAbs(a) == <<Abs(a[1]), a[2]>>

RLess(a, b) == a[1] * b[2] < b[1] * a[2]

RMaxOf(S) == CHOOSE a \in S : \A b \in S : ~RLess(a, b)

RECURSIVE RSum(_)
RSum(xs) == IF xs = <<>> THEN Num(0) ELSE RAdd(xs[1], RSum(Tail(xs)))

\* the root of a fraction whose numerator and denominator are perfect powers
IRoot(n, p) ==
    CHOOSE k \in 0..n : (IF p = 2 THEN k * k ELSE k * k * k) = n

RRoot(a, p) == <<IRoot(a[1], p), IRoot(a[2], p)>>

\* a sequence given by a rule, with every element worked out once
Seqn(f) == f \o <<>>

\* tensor.permute(1, 0, 2, 3)
Permute(w) ==
    Seqn([i \in 1..Len(w[1]) |-> Seqn([o \in 1..Len(w) |-> w[o][i]])])

\* tensor.abs().amax([1, 2, 3]): per index of axis 0
AbsAmax(w) ==
    Seqn([o \in 1..Len(w) |->
        RMaxOf({RAbs(w[o][i][k]) : i \in 1..Len(w[o]), k \in 1..Len(w[o][1])})])

\* tensor * v.reshape([-1, 1, 1, 1]) for a rank-4 tensor
ScaleAxis0(w, v) ==
    Seqn([o \in 1..Len(w) |-> Seqn([i \in 1..Len(w[o]) |->
        Seqn([k \in 1..Len(w[o][i]) |-> RMul(w[o][i][k], v[o])])])])

VecDiv(a, b) == Seqn([c \in 1..Len(a) |-> RDiv(a[c], b[c])])

VecMul(a, b) == Seqn([c \in 1..Len(a) |-> RMul(a[c], b[c])])

Recip(v) == Seqn([c \in 1..Len(v) |-> RDiv(Num(1), v[c])])

(***************************************************************************)
(* equalize                                                                *)
(***************************************************************************)
equalize_bias_unscaled(weight1, bias1, weight2) ==
    LET w2_p == Permute(weight2)
        r1 == AbsAmax(weight1)
        r2 == AbsAmax(w2_p)
        s == Seqn([c \in 1..Len(r1) |-> RDiv(r1[c], RRoot(RMul(r1[c], r2[c]), 2))])
    IN  [weight1 |-> ScaleAxis0(weight1, Recip(s)),
         weight2 |-> Permute(ScaleAxis0(w2_p, s)),
         bias1 |-> bias1,
         s |-> s]

\* lines 99-111; the result holds the tensors as written in place and s
equalize(weight1, bias1, weight2) ==
    LET w2_p == Permute(weight2)
        r1 == AbsAmax(weight1)
        r2 == AbsAmax(w2_p)
        s == Seqn([c \in 1..Len(r1) |-> RDiv(r1[c], RRoot(RMul(r1[c], r2[c]), 2))])
    IN  [weight1 |-> ScaleAxis0(weight1, Recip(s)),
         weight2 |-> Permute(ScaleAxis0(w2_p, s)),
         bias1 |-> VecDiv(bias1, s),
         s |-> s]

\* _weight_equal_helper, lines 150-153: a 2-group is equalized in place
Equalize ==
    /\ pc = "equalize"
    /\ LET r == equalize(tensors.weight1, tensors.bias1, tensors.weight2)
       IN  /\ tensors' = [tensors EXCEPT !.weight1 = r.weight1,
                                         !.bias1 = r.bias1,
                                         !.weight2 = r.weight2]
           /\ scales' = <<r.s>>
    /\ pc' = "equalized"
    /\ UNCHANGED <<given, travVars, hbaVars, drv>>

(***************************************************************************)
(* The function the two convolutions compute                               *)
(***************************************************************************)
\* negative slope of the scale-preserving activations of cls_scalable_type
Slope(act) ==
    CASE act = "ReLU" -> Num(0)
      [] act = "LeakyReLU" -> Frac(1, 100)
      [] act = "PReLU" -> Frac(1, 4)
      [] act = "Identity" -> Num(1)

Activation(act, y) == IF RLess(y, Num(0)) THEN RMul(Slope(act), y) ELSE y

\* a convolution whose kernel covers its whole input: one output position
ConvOut(weight, bias, x) ==
    Seqn([o \in 1..Len(weight) |->
        RAdd(bias[o],
             RSum(Seqn([j \in 1..(Len(x) * Len(x[1])) |->
                     LET i == ((j - 1) \div Len(x[1])) + 1
                         k == ((j - 1) % Len(x[1])) + 1
                     IN  RMul(weight[o][i][k], x[i][k])])))])

\* conv2(activation(conv1(x))); conv2's own bias is not among the tensors
\* equalize is given and is taken as zero
Forward(t, act, x) ==
    LET y == ConvOut(t.weight1, t.bias1, x)
        a == Seqn([c \in 1..Len(y) |-> <<Activation(act, y[c])>>])
    IN  ConvOut(t.weight2, Seqn([o \in 1..Len(t.weight2) |-> Num(0)]), a)

(***************************************************************************)
(* Inputs of equalize                                                      *)
(***************************************************************************)
MaxRoot == 2

\* channel ranges are perfect squares, so that sqrt(r1 * r2) is exact
Squares == {k * k : k \in 1..MaxRoot}

Kernels1 == {<<<<Num(a), Num(b)>>>> : a \in Squares, b \in {-4, 1}}

Inputs == {<<<<Num(a), Num(b)>>>> : a \in {-1, 1}, b \in {0, 2}}

InitEq ==
    /\ pc = "equalize"
    /\ \E w1 \in [1..2 -> Kernels1], b1 \in {<<-1, 2>>, <<2, -1>>},
          w2 \in [1..2 -> [1..2 -> Squares]], act \in cls_scalable_type :
          /\ tensors = [weight1 |-> w1,
                        bias1 |-> [c \in 1..2 |-> Num(b1[c])],
                        weight2 |-> [o \in 1..2 |-> [c \in 1..2 |-> <<Num(w2[o][c])>>]]]
          /\ given = [tensors |-> tensors, activation |-> act]
    /\ scales = <<>>
    /\ NoGraph
    /\ NoModel
    /\ NoDriver

NextEq == Equalize

SpecEq == InitEq /\ [][NextEq]_vars

\* C2: functional invariance of 2-layer equalization.  For every input x
\* and every positive-homogeneous activation, conv2(activation(conv1(x)))
\* is the same before and after equalize rescaled the tensors.
C2_FunctionalInvariance ==
    pc = "equalized" =>
        \A x \in Inputs :
            Forward(tensors, given.activation, x)
                = Forward(given.tensors, given.activation, x)

\* equalize rescaled a channel, and a clipping activation sits in between
C2_Witness ==
    /\ pc = "equalized"
    /\ given.activation = "ReLU"
    /\ scales[1][1] # Num(1)
    /\ tensors.weight1 # given.tensors.weight1
    /\ \E x \in Inputs : \E c \in 1..2 :
          RLess(ConvOut(given.tensors.weight1, given.tensors.bias1, x)[c], Num(0))

(***************************************************************************)
(* equalize_cdc                                                            *)
(***************************************************************************)
\* lines 116-121: the scales before the stability clamp
cdc_scales(weight1, weight2, weight3) ==
    LET w3_p == Permute(weight3)
        r1 == AbsAmax(weight1)
        r2 == AbsAmax(weight2)
        r3 == AbsAmax(w3_p)
    IN  [s1 |-> Seqn([c \in 1..Len(r1) |->
                    RDiv(r1[c], RRoot(RMul(RMul(r1[c], r2[c]), r3[c]), 3))]),
         s2 |-> Seqn([c \in 1..Len(r1) |->
                    RDiv(RRoot(RMul(RMul(r1[c], r3[c]), r2[c]), 3), r3[c])])]

\* torch.where(s1 / s2 > threshold, torch.ones(...), s)
WhereClamped(s1, s2, threshold, s) ==
    Seqn([c \in 1..Len(s) |->
        IF RLess(Num(threshold), RDiv(s1[c], s2[c])) THEN Num(1) ELSE s[c]])

\* lines 114-132; the result holds the tensors as written in place, s1, s2
equalize_cdc(weight1, bias1, weight2, bias2, weight3, threshold) ==
    LET w3_p == Permute(weight3)
        raw == cdc_scales(weight1, weight2, weight3)
        \* line 124
        s1 == WhereClamped(raw.s1, raw.s2, threshold, raw.s1)
        \* line 125 reads the s1 that line 124 has just assigned
        s2 == WhereClamped(s1, raw.s2, threshold, raw.s2)
    IN  [weight1 |-> ScaleAxis0(weight1, Recip(s1)),
         weight2 |-> ScaleAxis0(weight2, VecDiv(s1, s2)),
         weight3 |-> Permute(ScaleAxis0(w3_p, s2)),
         bias1 |-> VecMul(bias1, Recip(s1)),
         bias2 |-> VecMul(bias2, Recip(s2)),
         s1 |-> s1,
         s2 |-> s2]

\* _weight_equal_helper, lines 143-147: a 3-group is equalized in place
EqualizeCdc ==
    /\ pc = "equalize_cdc"
    /\ LET r == equalize_cdc(tensors.weight1, tensors.bias1, tensors.weight2,
                             tensors.bias2, tensors.weight3, given.threshold)
       IN  /\ tensors' = [weight1 |-> r.weight1, bias1 |-> r.bias1,
                          weight2 |-> r.weight2, bias2 |-> r.bias2,
                          weight3 |-> r.weight3]
           /\ scales' = <<r.s1, r.s2>>
    /\ pc' = "equalized_cdc"
    /\ UNCHANGED <<given, travVars, hbaVars, drv>>

\* threshold's default in _cross_layer_equalize and cross_layer_equalize
DefaultThreshold == 1000

Thresholds == {1, 2, DefaultThreshold}

\* channel ranges are perfect cubes, so that pow(r1 * r2 * r3, 1 / 3) is exact
Cubes == {k * k * k : k \in 1..MaxRoot}

InitCdc ==
    /\ pc = "equalize_cdc"
    /\ \E w1 \in [1..2 -> Cubes], w2 \in [1..2 -> Cubes], w3 \in [1..2 -> Cubes],
          threshold \in Thresholds :
          /\ tensors = [weight1 |-> [c \in 1..2 |-> <<<<Num(w1[c]), Num(-1)>>>>],
                        bias1 |-> <<Num(1), Num(-2)>>,
                        weight2 |-> [c \in 1..2 |-> <<<<Num(-w2[c])>>>>],
                        bias2 |-> <<Num(3), Num(1)>>,
                        weight3 |-> <<[c \in 1..2 |-> <<Num(w3[c])>>]>>]
          /\ given = [tensors |-> tensors, threshold |-> threshold]
    /\ scales = <<>>
    /\ NoGraph
    /\ NoModel
    /\ NoDriver

NextCdc == EqualizeCdc

SpecCdc == InitCdc /\ [][NextCdc]_vars

\* channel c of the three layers is as it was passed
CdcChannelUnchanged(c) ==
    /\ tensors.weight1[c] = given.tensors.weight1[c]
    /\ tensors.bias1[c] = given.tensors.bias1[c]
    /\ tensors.weight2[c] = given.tensors.weight2[c]
    /\ tensors.bias2[c] = given.tensors.bias2[c]
    /\ \A o \in 1..Len(tensors.weight3) :
          tensors.weight3[o][c] = given.tensors.weight3[o][c]

\* C3: 3-layer stability clamp.  For every channel whose computed ratio
\* s1_c / s2_c exceeds threshold, equalize_cdc resets both s1_c and s2_c to
\* 1 and leaves that channel of all three layers unchanged; every other
\* channel keeps its computed s1_c and s2_c.
C3_StabilityClamp ==
    pc = "equalized_cdc" =>
        LET raw == cdc_scales(given.tensors.weight1, given.tensors.weight2,
                              given.tensors.weight3)
        IN  \A c \in 1..2 :
                IF RLess(Num(given.threshold), RDiv(raw.s1[c], raw.s2[c]))
                THEN /\ scales[1][c] = Num(1)
                     /\ scales[2][c] = Num(1)
                     /\ CdcChannelUnchanged(c)
                ELSE /\ scales[1][c] = raw.s1[c]
                     /\ scales[2][c] = raw.s2[c]

(***************************************************************************)
(* bias_absorb_helper_.  The tensors of this part hold integers; a rank-4  *)
(* weight is indexed [out][in][tap] as above.                              *)
(***************************************************************************)
\* a bias that is None
NoneTensor == <<>>

\* hasattr(obj, name)
HasAttr(obj, name) == name \in DOMAIN obj

RECURSIVE Sum(_)
Sum(xs) == IF xs = <<>> THEN 0 ELSE xs[1] + Sum(Tail(xs))

AbsorbCUnclamped(pre_bn) ==
    Seqn([ch \in 1..Len(pre_bn.bias) |-> pre_bn.bias[ch] - 3 * Abs(pre_bn.weight[ch])])

\* lines 250-252: c = pre_bn.bias - 3 * |pre_bn.weight|, negatives set to 0
AbsorbC(pre_bn) ==
    Seqn([ch \in 1..Len(pre_bn.bias) |->
        LET c == pre_bn.bias[ch] - 3 * Abs(pre_bn.weight[ch])
        IN  IF c < 0 THEN 0 ELSE c])

\* lines 253-261
BiasCorrect(cur_weight, c) ==
    LET reduced_weight ==
            Seqn([o \in 1..Len(cur_weight) |->
                Seqn([i \in 1..Len(cur_weight[o]) |-> Sum(cur_weight[o][i])])])
    IN  IF Len(reduced_weight[1]) = 1
        THEN \* for dw conv: reshape(-1), elementwise product
             Seqn([o \in 1..Len(reduced_weight) |-> reduced_weight[o][1] * c[o]])
        ELSE \* torch.matmul(reduced_weight, c)
             Seqn([o \in 1..Len(reduced_weight) |->
                Sum(Seqn([i \in 1..Len(c) |-> reduced_weight[o][i] * c[i]]))])

VecAdd(a, b) == Seqn([ch \in 1..Len(a) |-> a[ch] + b[ch]])

VecSub(a, b) == Seqn([ch \in 1..Len(a) |-> a[ch] - b[ch]])

HelperResult(how, origin, c, bias_correct) ==
    [outcome |-> how, origin_model |-> origin, c |-> c, bias_correct |-> bias_correct]

\* lines 237-247: the batch-norm and the consumer convolution the helper
\* works with; "return" when it logs and returns, "unbound" when neither
\* branch assigns pre_bn
AbsorbOperands(pre_layer, cur_layer) ==
    IF pre_layer.cls = "ConvBnTrain" /\ cur_layer.cls = "ConvBnTrain"
    THEN [how |-> "bound", pre_bn |-> pre_layer.bn, cur_conv |-> cur_layer.conv]
    ELSE IF pre_layer.cls = "Conv2d" /\ pre_layer.cls = "Conv2d"
    THEN IF HasAttr(pre_layer, "fused_bn_") /\ HasAttr(cur_layer, "fused_bn_")
         THEN [how |-> "bound", pre_bn |-> pre_layer.fused_bn_, cur_conv |-> cur_layer]
         ELSE [how |-> "return"]
    ELSE [how |-> "unbound"]

\* lines 231-270.  layer1, layer2 are <<name, module>> members of a group.
\* outcome: "no attribute" (line 233), "no batch-norm" (line 247),
\* "absorbed", or the exception that ends the call.
bias_absorb_helper_(layer1, layer2, mdl, origin) ==
    IF ~HasAttr(layer1[2], "bias") \/ ~HasAttr(layer2[2], "bias")
    THEN HelperResult("no attribute", origin, <<>>, <<>>)
    ELSE
    LET pre_layer == mdl[layer1[1]]
        cur_layer == mdl[layer2[1]]
        ops == AbsorbOperands(pre_layer, cur_layer)
    IN  IF ops.how = "return"
        THEN HelperResult("no batch-norm", origin, <<>>, <<>>)
        ELSE IF ops.how = "unbound"
        THEN \* line 250 reads pre_bn, which was never assigned
             HelperResult("UnboundLocalError", origin, <<>>, <<>>)
        ELSE
        LET c == AbsorbC(ops.pre_bn)
            bias_correct == BiasCorrect(ops.cur_conv.weight, c)
        IN  IF ops.cur_conv.bias = NoneTensor
            THEN \* line 262: None + tensor
                 HelperResult("TypeError", origin, c, bias_correct)
            ELSE
            LET cur_bias == VecAdd(ops.cur_conv.bias, bias_correct)
                origin_pre_conv == origin[layer1[1]]
                origin_cur_conv == origin[layer2[1]]
            IN  IF origin_pre_conv.bias = NoneTensor
                THEN \* line 266: None has no attribute data
                     HelperResult("AttributeError", origin, c, bias_correct)
                ELSE
                LET \* line 267
                    origin1 == [origin EXCEPT ![layer1[1]].bias = VecSub(@, c)]
                IN  IF origin_cur_conv.bias = NoneTensor
                    THEN \* line 268: None has no attribute data
                         HelperResult("AttributeError", origin1, c, bias_correct)
                    ELSE HelperResult("absorbed",
                                      [origin1 EXCEPT ![layer2[1]].bias = cur_bias],
                                      c, bias_correct)

Raised(how) == how \in {"UnboundLocalError", "TypeError", "AttributeError"}

\* what the history keeps of an absorbed pair
Absorption(layer1, layer2, origin, r) ==
    [pre |-> layer1[1], cur |-> layer2[1], c |-> r.c, bias_correct |-> r.bias_correct,
     pre_before |-> origin[layer1[1]].bias, cur_before |-> origin[layer2[1]].bias,
     pre_after |-> r.origin_model[layer1[1]].bias,
     cur_after |-> r.origin_model[layer2[1]].bias]

(***************************************************************************)
(* bias_absorb_ and high_bias_absorb                                       *)
(***************************************************************************)
PairsOfBackward(layer_group) ==
    IF Len(layer_group) = 3 THEN <<<<2, 3>>, <<1, 2>>>>
    ELSE IF Len(layer_group) = 2 THEN <<<<1, 2>>>>
    ELSE <<>>

\* lines 276-280: the calls of bias_absorb_helper_ made for one group,
\* as positions in the group
PairsOf(layer_group) ==
    IF Len(layer_group) = 3 THEN <<<<1, 2>>, <<2, 3>>>>
    ELSE IF Len(layer_group) = 2 THEN <<<<1, 2>>>>
    ELSE <<>>

\* lines 320-322: origin_model = copy.deepcopy(cle_model), then bias_absorb_
HighBiasAbsorb ==
    /\ pc = "groups"
    /\ model # <<>>
    /\ origin_model' = model
    /\ hba_pos' = [g |-> 1, p |-> 1]
    /\ pc' = "bias_absorb_"
    /\ UNCHANGED <<model, absorbed, outcome, travVars, eqVars, drv>>

\* lines 275-280: the next call of bias_absorb_helper_
BiasAbsorbPair ==
    /\ pc = "bias_absorb_"
    /\ hba_pos.g <= Len(Groups)
    /\ LET layer_group == Groups[hba_pos.g]
           pairs == PairsOf(layer_group)
       IN  IF hba_pos.p > Len(pairs)
           THEN /\ hba_pos' = [g |-> hba_pos.g + 1, p |-> 1]
                /\ UNCHANGED <<pc, origin_model, absorbed, outcome>>
           ELSE LET layer1 == layer_group[pairs[hba_pos.p][1]]
                    layer2 == layer_group[pairs[hba_pos.p][2]]
                    r == bias_absorb_helper_(layer1, layer2, model, origin_model)
                IN  /\ origin_model' = r.origin_model
                    /\ outcome' = r.outcome
                    /\ absorbed' = IF r.outcome = "absorbed"
                                   THEN Append(absorbed,
                                               Absorption(layer1, layer2, origin_model, r))
                                   ELSE absorbed
                    /\ pc' = IF Raised(r.outcome) THEN "raised" ELSE pc
                    /\ hba_pos' = [hba_pos EXCEPT !.p = @ + 1]
    /\ UNCHANGED <<model, travVars, eqVars, drv>>

\* line 323: return origin_model
HighBiasAbsorbReturn ==
    /\ pc = "bias_absorb_"
    /\ hba_pos.g > Len(Groups)
    /\ pc' = "hba_done"
    /\ UNCHANGED <<hbaVars, travVars, eqVars, drv>>

(***************************************************************************)
(* Models given to high_bias_absorb: sequential models of ChainLen layers  *)
(***************************************************************************)
Kernel(n, groups) ==
    IF groups = 1
    THEN [o \in 1..2 |-> [i \in 1..2 |-> <<n + o - 2 * i, o * i - n>>]]
    ELSE [o \in 1..2 |-> <<<<n - o, o>>>>]

Bias(n) == <<n, 0 - n - 1>>

\* the batch-norm model_fuse_bn attached: channel 1 gives c = n, channel 2
\* a negative value that is set to 0
FusedBn(n) == [weight |-> <<1, -2>>, bias |-> <<3 + n, 1>>]

\* a Conv2d of the model; fusing a batch-norm gives the convolution a bias,
\* so a convolution that carries fused_bn_ has one
Conv2dLayer(n, groups, has_bias, has_bn) ==
    LET conv == [cls |-> "Conv2d", weight |-> Kernel(n, groups),
                 bias |-> IF has_bias THEN Bias(n) ELSE NoneTensor]
    IN  IF has_bn THEN conv @@ [fused_bn_ |-> FusedBn(n)] ELSE conv

ChainLen == 5

\* the layers of a model: a normal convolution without bias, with a bias of
\* its own, or with a fused batch-norm; a depthwise convolution with a fused
\* batch-norm; an activation; a pooling layer
LayerSpecs ==
    {ls \in [type : {"Conv2d"}, groups : {1, 2}, bias : BOOLEAN, bn : BOOLEAN] :
        /\ ls.bn => ls.bias
        /\ ls.groups = 2 => ls.bn}
    \cup [type : {"ReLU", "MaxPool2d"}, groups : {0}, bias : {FALSE}, bn : {FALSE}]

ModuleOf(ls) ==
    IF ls.type = "Conv2d" THEN Conv("Conv2d", ls.groups, 2, 2, ls.bias)
    ELSE Plain(ls.type)

LayerOf(n, ls) ==
    IF ls.type = "Conv2d" THEN Conv2dLayer(n, ls.groups, ls.bias, ls.bn)
    ELSE [cls |-> ls.type]

InitHba ==
    /\ pc = "get_cls_set"
    /\ \E ls \in [1..ChainLen -> LayerSpecs] :
          /\ graph = [n \in 1..ChainLen |->
                        [module |-> ModuleOf(ls[n]),
                         next_nodes |-> IF n < ChainLen THEN <<n + 1>> ELSE <<>>]]
          /\ model = [n \in 1..ChainLen |-> LayerOf(n, ls[n])]
    /\ stack = <<>>
    /\ heap = <<>>
    /\ layer_groups = <<>>
    /\ visited_nodes = <<>>
    /\ fwd = 1
    /\ origin_model = <<>>
    /\ hba_pos = <<>>
    /\ absorbed = <<>>
    /\ outcome = ""
    /\ NoTensors
    /\ NoDriver

NextHba ==
    \/ GetClsSetCall
    \/ TraverseCall
    \/ TraverseReturn
    \/ GetClsSetReturn
    \/ HighBiasAbsorb
    \/ BiasAbsorbPair
    \/ HighBiasAbsorbReturn

SpecHba == InitHba /\ [][NextHba]_vars


(***************************************************************************)
(* One call of bias_absorb_helper_ on any pair a caller can hand to it:    *)
(* plain or fused Conv2d layers, and the ConvBnTrain wrappers of the       *)
(* bn_restore path of __high_bias_absorb.                                  *)
(***************************************************************************)
ConvBnTrainLayer(n, groups, has_bias) ==
    [cls |-> "ConvBnTrain", conv |-> Conv2dLayer(n, groups, has_bias, FALSE),
     bn |-> FusedBn(n)]

\* a Conv1d of the model; only a BatchNorm2d is fused, so it never carries
\* fused_bn_
Conv1dLayer(n, groups, has_bias) ==
    [cls |-> "Conv1d", weight |-> Kernel(n, groups),
     bias |-> IF has_bias THEN Bias(n) ELSE NoneTensor]

PairLayerSpecs ==
    {ps \in [cls : {"Conv2d", "Conv1d", "ConvBnTrain"}, groups : {1, 2},
             bias : BOOLEAN, bn : BOOLEAN] :
        /\ ps.cls = "Conv2d" => (ps.bn => ps.bias)
        /\ ps.cls = "Conv1d" => ~ps.bn
        /\ ps.cls = "ConvBnTrain" => ps.bn}
    \cup [cls : {"ReLU"}, groups : {0}, bias : {FALSE}, bn : {FALSE}]

\* the module of the traced graph that stands in the group
PairModuleOf(ps) ==
    IF ps.cls = "ReLU" THEN Plain("ReLU")
    ELSE IF ps.cls = "Conv1d" THEN Conv("Conv1d", ps.groups, 2, 2, ps.bias)
    ELSE Conv("Conv2d", ps.groups, 2, 2, ps.bias)

PairLayerOf(n, ps) ==
    IF ps.cls = "Conv2d" THEN Conv2dLayer(n, ps.groups, ps.bias, ps.bn)
    ELSE IF ps.cls = "Conv1d" THEN Conv1dLayer(n, ps.groups, ps.bias)
    ELSE IF ps.cls = "ConvBnTrain" THEN ConvBnTrainLayer(n, ps.groups, ps.bias)
    ELSE [cls |-> ps.cls]

\* lines 285-305: origin_model is the deep copy of cle_model, whose
\* convolutions the restored model wraps
OriginOf(layer) == IF layer.cls = "ConvBnTrain" THEN layer.conv ELSE layer

InitPair ==
    /\ pc = "bias_absorb_helper_"
    /\ \E ps \in [1..2 -> PairLayerSpecs] :
          \* the restored model wraps the producer only where it wraps the consumer
          /\ ps[1].cls = "ConvBnTrain" => ps[2].cls = "ConvBnTrain"
          /\ model = [n \in 1..2 |-> PairLayerOf(n, ps[n])]
          /\ hba_pos = [layer1 |-> <<1, PairModuleOf(ps[1])>>,
                        layer2 |-> <<2, PairModuleOf(ps[2])>>]
    /\ origin_model = [n \in 1..2 |-> OriginOf(model[n])]
    /\ absorbed = <<>>
    /\ outcome = ""
    /\ NoGraph
    /\ NoTensors
    /\ NoDriver

\* lines 231-270, one call
BiasAbsorbHelper ==
    /\ pc = "bias_absorb_helper_"
    /\ LET r == bias_absorb_helper_(hba_pos.layer1, hba_pos.layer2, model, origin_model)
       IN  /\ origin_model' = r.origin_model
           /\ outcome' = r.outcome
           /\ absorbed' = IF r.outcome = "absorbed"
                          THEN Append(absorbed,
                                      Absorption(hba_pos.layer1, hba_pos.layer2,
                                                 origin_model, r))
                          ELSE absorbed
           /\ pc' = IF Raised(r.outcome) THEN "raised" ELSE "returned"
    /\ UNCHANGED <<model, hba_pos, travVars, eqVars, drv>>

NextPair == BiasAbsorbHelper

SpecPair == InitPair /\ [][NextPair]_vars


(***************************************************************************)
(* cross_layer_equalize, the driver.  drv holds its locals: the objects    *)
(* the name `model` has been bound to, with the convolutions of each that  *)
(* carry fused_bn_, the loop counter, `layers_groups` (the pass that       *)
(* produced it, or "unbound") and the calls made so far.                   *)
(***************************************************************************)
MaxIters == 2

Call(fn, groups) == [fn |-> fn, layers_groups |-> groups]

InitDriver ==
    /\ pc = "model_rewrite"
    /\ \E cle_iters \in 0..MaxIters, hba_flag \in BOOLEAN, bn_convs \in SUBSET Nodes :
          drv = [cle_iters |-> cle_iters, hba_flag |-> hba_flag, bn_convs |-> bn_convs,
                 model |-> "given",
                 fused_bn_ |-> [obj \in {"given", "rewritten", "copy"} |-> {}],
                 i |-> 0, layers_groups |-> "unbound", calls |-> <<>>]
    /\ NoGraph
    /\ NoTensors
    /\ NoModel

\* line 216
ModelRewrite ==
    /\ pc = "model_rewrite"
    /\ drv' = [drv EXCEPT !.model = "rewritten",
                          !.calls = Append(@, Call("model_rewrite", "none"))]
    /\ pc' = "model_fuse_bn"
    /\ UNCHANGED <<travVars, eqVars, hbaVars>>

\* line 217; model_fuse_bn (lines 326-356) attaches fused_bn_ to every
\* convolution it fuses a BatchNorm2d into
ModelFuseBn ==
    /\ pc = "model_fuse_bn"
    /\ drv' = [drv EXCEPT !.fused_bn_[drv.model] = drv.bn_convs,
                          !.calls = Append(@, Call("model_fuse_bn", "none"))]
    /\ pc' = "for"
    /\ UNCHANGED <<travVars, eqVars, hbaVars>>

\* lines 220-221, one iteration
CleIteration ==
    /\ pc = "for"
    /\ drv.i < drv.cle_iters
    /\ drv' = [drv EXCEPT !.i = @ + 1,
                          !.layers_groups = ToString(drv.i + 1),
                          !.calls = Append(@, Call("_cross_layer_equalize", "none"))]
    /\ UNCHANGED <<pc, travVars, eqVars, hbaVars>>

\* line 220, range(cle_iters) is exhausted
CleLoopExit ==
    /\ pc = "for"
    /\ drv.i = drv.cle_iters
    /\ pc' = "if hba_flag"
    /\ UNCHANGED <<drv, travVars, eqVars, hbaVars>>

\* lines 223-225; high_bias_absorb returns a deep copy (lines 321-323),
\* which carries the fused_bn_ of the model it copies
HbaStep ==
    /\ pc = "if hba_flag"
    /\ IF ~drv.hba_flag
       THEN /\ pc' = "clear_model_fused_bn"
            /\ UNCHANGED drv
       ELSE IF drv.layers_groups = "unbound"
       THEN \* line 225 reads layers_groups, which the loop never assigned
            /\ pc' = "raised"
            /\ UNCHANGED drv
       ELSE /\ pc' = "clear_model_fused_bn"
            /\ drv' = [drv EXCEPT !.model = "copy",
                                  !.fused_bn_["copy"] = drv.fused_bn_[drv.model],
                                  !.calls = Append(@, Call("high_bias_absorb",
                                                           drv.layers_groups))]
    /\ UNCHANGED <<travVars, eqVars, hbaVars>>

\* line 226, clear_model_fused_bn (lines 380-384)
ClearModelFusedBn ==
    /\ pc = "clear_model_fused_bn"
    /\ drv' = [drv EXCEPT !.fused_bn_[drv.model] = {},
                          !.calls = Append(@, Call("clear_model_fused_bn", "none"))]
    /\ pc' = "return"
    /\ UNCHANGED <<travVars, eqVars, hbaVars>>

\* line 228
Return ==
    /\ pc = "return"
    /\ pc' = "done"
    /\ UNCHANGED <<drv, travVars, eqVars, hbaVars>>

NextDriver ==
    \/ ModelRewrite
    \/ ModelFuseBn
    \/ CleIteration
    \/ CleLoopExit
    \/ HbaStep
    \/ ClearModelFusedBn
    \/ Return

SpecDriver == InitDriver /\ [][NextDriver]_vars

(***************************************************************************)
(* Properties of cross_layer_equalize                                      *)
(***************************************************************************)
ExpectedCalls(cle_iters, hba_flag) ==
    <<Call("model_rewrite", "none"), Call("model_fuse_bn", "none")>>
    \o [k \in 1..cle_iters |-> Call("_cross_layer_equalize", "none")]
    \o (IF hba_flag THEN <<Call("high_bias_absorb", ToString(cle_iters))>> ELSE <<>>)
    \o <<Call("clear_model_fused_bn", "none")>>

\* C5: for every cle_iters >= 0 and both values of hba_flag a call of
\* cross_layer_equalize does not raise, and when it returns it has performed
\* fusion, the cle_iters passes, the absorption pass with the groups of the
\* last pass when hba_flag is set, and cleanup, in that order, and the model
\* it returns has no convolution that carries fused_bn_.
C5_CleanupAlwaysRunsLast ==
    /\ pc # "raised"
    /\ pc = "done" =>
          /\ drv.calls = ExpectedCalls(drv.cle_iters, drv.hba_flag)
          /\ drv.fused_bn_[drv.model] = {}

\* the same, for the calls that run at least one pass or skip absorption
DriverOrderWithAPass ==
    (drv.cle_iters > 0 \/ ~drv.hba_flag) =>
        /\ pc # "raised"
        /\ pc = "done" =>
              /\ drv.calls = ExpectedCalls(drv.cle_iters, drv.hba_flag)
              /\ drv.fused_bn_[drv.model] = {}


(***************************************************************************)
(* Properties of bias absorption                                           *)
(***************************************************************************)
\* the batch-norm statistics a layer of the working model carries
BnOf(layer) == IF layer.cls = "ConvBnTrain" THEN layer.bn ELSE layer.fused_bn_

\* the convolution of a layer of the working model
ConvOf(layer) == IF layer.cls = "ConvBnTrain" THEN layer.conv ELSE layer

Max0(x) == IF x > 0 THEN x ELSE 0

\* c = max(0, bn.bias - 3 * |bn.weight|), channel by channel
ExpectedC(bn) ==
    [ch \in 1..2 |-> Max0(bn.bias[ch] - 3 * (IF bn.weight[ch] < 0 THEN 0 - bn.weight[ch]
                                              ELSE bn.weight[ch]))]

\* the spatially summed kernel of the consumer applied to c
ExpectedCorrection(weight, c, depthwise) ==
    IF depthwise
    THEN [o \in 1..2 |-> (weight[o][1][1] + weight[o][1][2]) * c[o]]
    ELSE [o \in 1..2 |-> (weight[o][1][1] + weight[o][1][2]) * c[1]
                         + (weight[o][2][1] + weight[o][2][2]) * c[2]]

Plus(a, b) == [ch \in 1..2 |-> a[ch] + b[ch]]

Minus(a, b) == [ch \in 1..2 |-> a[ch] - b[ch]]

Zero == [ch \in 1..2 |-> 0]

\* the correction the pair e must have computed, from the working model
CorrectionOf(e) ==
    ExpectedCorrection(ConvOf(model[e.cur]).weight, ExpectedC(BnOf(model[e.pre])),
                       is_dw_conv(graph[e.cur].module))

\* what a layer gives away as the producer of an absorbed pair
GivenAway(n) ==
    IF \E k \in 1..Len(absorbed) : absorbed[k].pre = n
    THEN (CHOOSE e \in {absorbed[k] : k \in 1..Len(absorbed)} : e.pre = n).c
    ELSE Zero

\* the value of c and the two assignments of one absorbed pair
PairExact(e) ==
    /\ \A ch \in 1..2 : e.c[ch] >= 0
    /\ e.c = ExpectedC(BnOf(model[e.pre]))
    /\ e.pre_after = Minus(e.pre_before, e.c)
    /\ e.cur_after = Plus(e.cur_before, CorrectionOf(e))

\* C4 as stated: for every absorbed pair c is max(0, bn.bias - 3|bn.weight|)
\* and non-negative, and in the model high_bias_absorb returns the producer's
\* bias is its bias before the pair was processed minus c and the consumer's
\* bias is its bias before the pair was processed plus the correction.
C4_ReturnedModelExact ==
    \A k \in 1..Len(absorbed) :
        LET e == absorbed[k]
        IN  /\ \A ch \in 1..2 : e.c[ch] >= 0
            /\ e.c = ExpectedC(BnOf(model[e.pre]))
            /\ pc = "hba_done" =>
                  /\ origin_model[e.pre].bias = Minus(e.pre_before, e.c)
                  /\ origin_model[e.cur].bias = Plus(e.cur_before, CorrectionOf(e))

\* C4: for every absorbed pair c is max(0, bn.bias - 3|bn.weight|) and
\* non-negative; when the helper returns, the producer's bias is its bias
\* before the pair minus c and the consumer's bias is its bias before the
\* pair plus the correction; in the returned model the producer's bias is
\* still that value, and the consumer's bias is that value minus the c the
\* consumer itself gives away as the producer of a later absorbed pair.
C4_AbsorptionExact ==
    \A k \in 1..Len(absorbed) :
        LET e == absorbed[k]
        IN  /\ PairExact(e)
            /\ pc = "hba_done" =>
                  /\ origin_model[e.pre].bias = Minus(e.pre_before, e.c)
                  /\ origin_model[e.cur].bias =
                        Minus(Plus(e.cur_before, CorrectionOf(e)), GivenAway(e.cur))

\* a run has returned with a depthwise and a normal consumer absorbed, a
\* non-zero c, and a consumer that is the producer of a later pair
C4_Witness ==
    /\ pc = "hba_done"
    /\ \E j, k \in 1..Len(absorbed) :
          /\ is_dw_conv(graph[absorbed[j].cur].module)
          /\ is_normal_conv(graph[absorbed[k].cur].module)
          /\ absorbed[j].c # Zero
          /\ CorrectionOf(absorbed[k]) # Zero
          /\ GivenAway(absorbed[j].cur) # Zero

\* a layer of the model exposes a bias
ExposesBias(layer) == HasAttr(layer, "bias") /\ layer.bias # NoneTensor

HasBn(layer) == HasAttr(layer, "fused_bn_")

\* the pairs of names bias_absorb_ hands to the helper, all of them once
\* high_bias_absorb has returned
Processed ==
    IF pc = "hba_done"
    THEN UNION {{<<Groups[g][q][1], Groups[g][q + 1][1]>> : q \in 1..(Len(Groups[g]) - 1)} :
                    g \in 1..Len(Groups)}
    ELSE {}

WasAbsorbed(pair) ==
    \E k \in 1..Len(absorbed) : absorbed[k].pre = pair[1] /\ absorbed[k].cur = pair[2]

\* C6: a processed pair whose layers both expose a bias is absorbed
\* whenever the producer carries an attached batch-norm, whether or not the
\* consumer carries one; it is skipped only when the producer carries none.
C6_AbsorbedWheneverProducerHasBn ==
    \A pair \in Processed :
        (ExposesBias(model[pair[1]]) /\ ExposesBias(model[pair[2]])) =>
            (HasBn(model[pair[1]]) <=> WasAbsorbed(pair))

\* a pair whose producer carries a batch-norm and whose consumer carries
\* none has been processed
C6_ConsumerWithoutBnProcessed ==
    \E pair \in Processed :
        /\ ExposesBias(model[pair[1]]) /\ ExposesBias(model[pair[2]])
        /\ HasBn(model[pair[1]]) /\ ~HasBn(model[pair[2]])

\* C9: when high_bias_absorb has run over the groups in the order of
\* get_cls_set, every layer that is the consumer of one absorbed pair and
\* the producer of another has final bias = its bias before absorption +
\* the correction it received - its own c, and the pair in which it is the
\* consumer was processed before the pair in which it is the producer.
C9_SharedLayerComposes ==
    \A j, k \in 1..Len(absorbed) :
        absorbed[j].cur = absorbed[k].pre =>
            /\ j < k
            /\ pc = "hba_done" =>
                  origin_model[absorbed[j].cur].bias =
                      Minus(Plus(model[absorbed[j].cur].bias, CorrectionOf(absorbed[j])),
                            ExpectedC(BnOf(model[absorbed[k].pre])))

\* a run has returned in which the middle layer of a 3-group and the layer
\* shared by two consecutive groups both received a non-zero correction and
\* gave away a non-zero c
C9_Witness ==
    /\ pc = "hba_done"
    /\ \E g \in 1..Len(Groups) :
          /\ Len(Groups[g]) = 3
          /\ \E j, k \in 1..Len(absorbed) :
                /\ absorbed[j].cur = Groups[g][2][1]
                /\ absorbed[k].pre = Groups[g][2][1]
                /\ CorrectionOf(absorbed[j]) # Zero
                /\ absorbed[k].c # Zero
    /\ \E g \in 1..(Len(Groups) - 1) :
          /\ Groups[g][Len(Groups[g])][1] = Groups[g + 1][1][1]
          /\ \E j, k \in 1..Len(absorbed) :
                /\ absorbed[j].cur = Groups[g + 1][1][1]
                /\ absorbed[k].pre = Groups[g + 1][1][1]
                /\ CorrectionOf(absorbed[j]) # Zero
                /\ absorbed[k].c # Zero

\* the biases of the origin model as the call found them
OriginBefore == [n \in 1..2 |-> OriginOf(model[n])]

\* C7: when either layer of the pair has no bias (a convolution whose bias
\* is None), bias_absorb_helper_ returns without raising and leaves every
\* bias of the origin model unchanged.
C7_MissingBiasNonFatal ==
    (/\ pc \in {"returned", "raised"}
     /\ \E n \in 1..2 : HasAttr(ConvOf(model[n]), "bias")
                         /\ ConvOf(model[n]).bias = NoneTensor) =>
        /\ pc = "returned"
        /\ origin_model = OriginBefore

====
